---- MODULE Spec2Model ----
(***************************************************************************)
(* Jewellery Management API (backend/main.py, schemas.py): product CRUD,   *)
(* order creation with stock check and decrement, invoice generation and   *)
(* the count-based sequence numbers, over a document store.                *)
(*                                                                         *)
(* Money.  Prices held by a product (unit_price, making_charges) are       *)
(* decimal amounts with three fractional digits, written here as integers  *)
(* in thousandths of the currency unit (125 is 0.125).  Every value that   *)
(* round(x, 2) produces is written as an integer number of hundredths.     *)
(* round(x, 2) is Python's round: to the nearest hundredth, a tie going to *)
(* the even neighbour.  Arithmetic is exact decimal arithmetic.  The code   *)
(* computes in binary floating point, where a decimal tie that has no      *)
(* exact binary form falls to the side of its representation error; the    *)
(* input sets below (Prices, Makings, TaxRates, Qtys and the Calc* sets)   *)
(* hold only values on which the exact computation and the float           *)
(* computation of calc_item_totals return the same three amounts.          *)
(*                                                                         *)
(* Optional values.  None is the empty sequence, a present value v is the  *)
(* one-element sequence <<v>>.                                             *)
(*                                                                         *)
(* Passive payload (name, description, notes, timestamps of products and   *)
(* orders, the rendered html of an invoice) is carried by the code without *)
(* influencing any decision and is left out of the records.  Identifiers   *)
(* in requests are well-formed ObjectId strings.                           *)
(*                                                                         *)
(* A handler is a function from the request and the store to the response  *)
(* and the store (the *_run operators); the action of the handler applies  *)
(* it to the store.  A request that is answered with an error leaves the   *)
(* store as it was, so it shows as a step that changes nothing.            *)
(***************************************************************************)
EXTENDS Integers, Sequences, FiniteSets, TLC

VARIABLES
    products,   \* db["product"]: _id -> document
    nextPid,    \* the next _id the store assigns in db["product"]
    orders,     \* db["order"]: sequence of documents, _id = position
    invoices,   \* db["invoice"]: sequence of documents, _id = position
    steps,      \* the number of requests answered with success so far
    procs,      \* the requests in flight, one record per worker (interleaved runs)
    calc        \* the pricing calculator run: its arguments and its result

vars == <<products, nextPid, orders, invoices, steps, procs, calc>>

----------------------------------------------------------------------------
(* Bounds of the model *)

\* The number of successful requests a run of the API is followed for
MaxSteps == 4

\* Request inputs
ProductIds == {1, 2}
Skus == {"A", "B"}
Prices == {125, 1000}
Makings == {0}
TaxRates == {8}
Customers == {[name |-> "alice"]}
StockLevels == 0 .. 2
Qtys == 0 .. 2
OrderIds == {1, 2}
Times == {10}
IssueDates == {<<>>, <<5>>}
DueDays == {<<>>, <<0>>, <<2>>, <<-1>>}

None == <<>>

----------------------------------------------------------------------------
(* Numbers *)

\* round(n/d, 0) for d > 0: nearest integer, ties to even (Python 3 round)
RoundHalfEven(n, d) ==
    LET q == n \div d
        r == n % d
    IN  IF 2 * r < d THEN q
        ELSE IF 2 * r > d THEN q + 1
        ELSE IF q % 2 = 0 THEN q ELSE q + 1

\* round(x, 2) of the amount x = n/d currency units, in hundredths
round2(n, d) == RoundHalfEven(n * 100, d)

Digit(d) == <<"0", "1", "2", "3", "4", "5", "6", "7", "8", "9">>[d + 1]

RECURSIVE Decimal(_)
Decimal(n) == IF n < 10 THEN Digit(n) ELSE Decimal(n \div 10) \o Digit(n % 10)

RECURSIVE ZeroPad(_, _)
ZeroPad(s, width) == IF Len(s) >= width THEN s ELSE ZeroPad("0" \o s, width)

\* f"{count:05d}"
Format05d(count) == ZeroPad(Decimal(count), 5)

----------------------------------------------------------------------------
(* Pricing calculator *)

\* unit_price, making_charges in thousandths; tax_rate in percent;
\* the result <<subtotal, tax_amount, total>> in hundredths
calc_item_totals(unit_price, making_charges, qty, tax_rate) ==
    LET subtotal == (unit_price + making_charges) * qty
        tax_amount == round2(subtotal * tax_rate, 1000 * 100)
        total == round2(subtotal + tax_amount * 10, 1000)
    IN  <<round2(subtotal, 1000), tax_amount, total>>

----------------------------------------------------------------------------
(* Schemas *)

\* schemas.Product: the bodies the request validation lets through
ProductSchema ==
    [sku : Skus, stock_qty : StockLevels, unit_price : Prices,
     making_charges : Makings, tax_rate : TaxRates]

\* (variant of OrderItemSchema: qty without its ge=1)
OrderItemSchemaAnyQty(d) ==
    /\ d.unit_price >= 0
    /\ d.making_charges >= 0
    /\ d.tax_rate >= 0 /\ d.tax_rate <= 100
    /\ d.subtotal >= 0
    /\ d.tax_amount >= 0
    /\ d.total >= 0

\* schemas.OrderItem field constraints
OrderItemSchema(d) ==
    /\ d.qty >= 1
    /\ d.unit_price >= 0
    /\ d.making_charges >= 0
    /\ d.tax_rate >= 0 /\ d.tax_rate <= 100
    /\ d.subtotal >= 0
    /\ d.tax_amount >= 0
    /\ d.total >= 0

\* OrderItem(**d).model_dump(): the document rebuilt from the model's fields
OrderItemDump(d) ==
    [product_id |-> d.product_id, sku |-> d.sku, qty |-> d.qty,
     unit_price |-> d.unit_price, making_charges |-> d.making_charges,
     tax_rate |-> d.tax_rate, subtotal |-> d.subtotal,
     tax_amount |-> d.tax_amount, total |-> d.total]

\* Customer(**d).model_dump()
CustomerDump(d) == [name |-> d.name]

\* main.CreateOrderItem, main.CreateOrderRequest
CreateOrderItem == [product_id : ProductIds, qty : Qtys]

ItemLists ==
    {<<>>} \cup {<<a>> : a \in CreateOrderItem}
           \cup {<<a, b>> : a \in CreateOrderItem, b \in CreateOrderItem}

CreateOrderRequest == [customer : Customers, items : ItemLists]

\* main.InvoiceCreateRequest
InvoiceCreateRequest == [issue_date : IssueDates, due_in_days : DueDays]

----------------------------------------------------------------------------
(* Sequence generator *)

\* (variant: the count itself, without the + 1)
generate_order_number_count(count) == "ORD-" \o Format05d(count)

generate_order_number(count) == "ORD-" \o Format05d(count + 1)

generate_invoice_number(count) == "INV-" \o Format05d(count + 1)

----------------------------------------------------------------------------
(* Order assembler: the pieces of create_order *)

\* (variant of scan_item: the stock check left out)
scan_item_unchecked(item, prods) ==
    IF item.product_id \notin DOMAIN prods
    THEN [status |-> 400,
          detail |-> "Product not found: " \o Decimal(item.product_id)]
    ELSE LET prod == prods[item.product_id]
             t == calc_item_totals(prod.unit_price, prod.making_charges,
                                   item.qty, prod.tax_rate)
             d == [product_id |-> item.product_id, sku |-> prod.sku,
                   qty |-> item.qty, unit_price |-> prod.unit_price,
                   making_charges |-> prod.making_charges,
                   tax_rate |-> prod.tax_rate, subtotal |-> t[1],
                   tax_amount |-> t[2], total |-> t[3]]
         IN  IF ~OrderItemSchema(d)
             THEN [status |-> 500, detail |-> "ValidationError"]
             ELSE [status |-> 200, detail |-> "", order_item |-> OrderItemDump(d)]

\* (variant of scan_item: the result of find_one used without the test for
\* a missing product, so that prod.get raises on None)
scan_item_no_test(item, prods) ==
    IF item.product_id \notin DOMAIN prods
    THEN [status |-> 500, detail |-> "AttributeError"]
    ELSE LET prod == prods[item.product_id] IN
         IF prod.stock_qty < item.qty
         THEN [status |-> 400, detail |-> "Insufficient stock"]
         ELSE LET t == calc_item_totals(prod.unit_price, prod.making_charges,
                                        item.qty, prod.tax_rate)
                  d == [product_id |-> item.product_id, sku |-> prod.sku,
                        qty |-> item.qty, unit_price |-> prod.unit_price,
                        making_charges |-> prod.making_charges,
                        tax_rate |-> prod.tax_rate, subtotal |-> t[1],
                        tax_amount |-> t[2], total |-> t[3]]
              IN  IF ~OrderItemSchema(d)
                  THEN [status |-> 500, detail |-> "ValidationError"]
                  ELSE [status |-> 200, detail |-> "", order_item |-> OrderItemDump(d)]

\* One iteration of the validation loop against the product collection prods:
\* find_one, the two checks, the totals and the OrderItem construction.
scan_item(item, prods) ==
    IF item.product_id \notin DOMAIN prods
    THEN [status |-> 400,
          detail |-> "Product not found: " \o Decimal(item.product_id)]
    ELSE LET prod == prods[item.product_id] IN
         IF prod.stock_qty < item.qty
         THEN [status |-> 400, detail |-> "Insufficient stock"]
         ELSE LET t == calc_item_totals(prod.unit_price, prod.making_charges,
                                        item.qty, prod.tax_rate)
                  d == [product_id |-> item.product_id, sku |-> prod.sku,
                        qty |-> item.qty, unit_price |-> prod.unit_price,
                        making_charges |-> prod.making_charges,
                        tax_rate |-> prod.tax_rate, subtotal |-> t[1],
                        tax_amount |-> t[2], total |-> t[3]]
              IN  IF ~OrderItemSchema(d)
                  THEN [status |-> 500, detail |-> "ValidationError"]
                  ELSE [status |-> 200, detail |-> "", order_item |-> OrderItemDump(d)]

\* The accumulators of the loop before its first iteration
ScanStart ==
    [status |-> 200, detail |-> "", at |-> 0, order_items |-> <<>>,
     subtotal_total |-> 0, tax_total |-> 0]

\* The accumulators after one more iteration that returned r
scan_step(acc, r) ==
    IF r.status # 200
    THEN [acc EXCEPT !.status = r.status, !.detail = r.detail, !.at = acc.at + 1]
    ELSE [acc EXCEPT !.at = acc.at + 1,
                     !.order_items = Append(acc.order_items, r.order_item),
                     !.subtotal_total = acc.subtotal_total + r.order_item.subtotal,
                     !.tax_total = acc.tax_total + r.order_item.tax_amount]

\* The whole loop when nothing else touches the store: it stops at the
\* first item that raises
RECURSIVE scan_items(_, _, _)
scan_items(items, prods, acc) ==
    IF items = <<>> \/ acc.status # 200 THEN acc
    ELSE scan_items(Tail(items), prods, scan_step(acc, scan_item(Head(items), prods)))

\* Order(...).model_dump()
build_order(payload, acc, order_number) ==
    [order_number |-> order_number,
     customer |-> CustomerDump(payload.customer),
     items |-> acc.order_items,
     status |-> "created",
     subtotal |-> round2(acc.subtotal_total, 100),
     tax_total |-> round2(acc.tax_total, 100),
     grand_total |-> round2(acc.subtotal_total + acc.tax_total, 100)]

\* (variant of inc_stock: one unit taken per line, whatever its qty)
inc_stock_one(prods, item) ==
    IF item.product_id \in DOMAIN prods
    THEN [prods EXCEPT ![item.product_id].stock_qty = @ - 1]
    ELSE prods

\* update_one({"_id": product_id}, {"$inc": {"stock_qty": -qty}})
inc_stock(prods, item) ==
    IF item.product_id \in DOMAIN prods
    THEN [prods EXCEPT ![item.product_id].stock_qty = @ - item.qty]
    ELSE prods

\* (variant of reduce_stock: the loop left after its first item)
reduce_stock_first(items, prods) ==
    IF items = <<>> THEN prods ELSE inc_stock(prods, Head(items))

\* The stock reduction loop when nothing else touches the store
RECURSIVE reduce_stock(_, _)
reduce_stock(items, prods) ==
    IF items = <<>> THEN prods
    ELSE reduce_stock(Tail(items), inc_stock(prods, Head(items)))

----------------------------------------------------------------------------
(* Invoice generator: the pieces of create_invoice *)

\* issue_date = payload.issue_date or datetime.now(timezone.utc)
issue_date_of(payload, now) ==
    IF payload.issue_date # None THEN payload.issue_date[1] ELSE now

\* (variant of due_date_of: the days added only when positive)
due_date_positive(payload, issue_date) ==
    IF payload.due_in_days = None \/ payload.due_in_days[1] <= 0
    THEN issue_date
    ELSE issue_date + payload.due_in_days[1]

\* issue_date if not payload.due_in_days else issue_date + timedelta(days=...)
due_date_of(payload, issue_date) ==
    IF payload.due_in_days = None \/ payload.due_in_days = <<0>>
    THEN issue_date
    ELSE issue_date + payload.due_in_days[1]

RECURSIVE Sum(_)
\* the sum of a sequence of integers
Sum(xs) == IF xs = <<>> THEN 0 ELSE Head(xs) + Sum(Tail(xs))

\* (variant of build_invoice: grand_total summed again from the items)
build_invoice_resummed(order_id, order, payload, invoice_number, now) ==
    LET issue_date == issue_date_of(payload, now) IN
    [invoice_number |-> invoice_number,
     order_id |-> order_id,
     order_number |-> order.order_number,
     billed_to |-> CustomerDump(order.customer),
     items |-> [i \in DOMAIN order.items |-> OrderItemDump(order.items[i])],
     subtotal |-> order.subtotal,
     tax_total |-> order.tax_total,
     grand_total |-> Sum([i \in DOMAIN order.items |-> order.items[i].total]),
     issue_date |-> issue_date,
     due_date |-> <<due_date_of(payload, issue_date)>>]

\* Invoice(...).model_dump() from the order document read from the store
build_invoice(order_id, order, payload, invoice_number, now) ==
    LET issue_date == issue_date_of(payload, now) IN
    [invoice_number |-> invoice_number,
     order_id |-> order_id,
     order_number |-> order.order_number,
     billed_to |-> CustomerDump(order.customer),
     items |-> [i \in DOMAIN order.items |-> OrderItemDump(order.items[i])],
     subtotal |-> order.subtotal,
     tax_total |-> order.tax_total,
     grand_total |-> order.grand_total,
     issue_date |-> issue_date,
     due_date |-> <<due_date_of(payload, issue_date)>>]

----------------------------------------------------------------------------
(* The handlers, one request at a time: request, store |-> response, store *)

Db == [products |-> products, nextPid |-> nextPid,
       orders |-> orders, invoices |-> invoices]

Result(status, detail, at, db) ==
    [status |-> status, detail |-> detail, at |-> at, db |-> db]

create_product_run(product, db) ==
    IF \E p \in DOMAIN db.products : db.products[p].sku = product.sku
    THEN Result(400, "SKU already exists", 0, db)
    ELSE Result(200, "", 0,
            [db EXCEPT !.products = [p \in DOMAIN db.products \cup {db.nextPid} |->
                                        IF p = db.nextPid THEN product
                                        ELSE db.products[p]],
                       !.nextPid = db.nextPid + 1])

\* (variant of update_product_run: stock_qty left out of the $set)
update_product_run_keep_stock(product_id, product, db) ==
    IF \E p \in DOMAIN db.products \ {product_id} : db.products[p].sku = product.sku
    THEN Result(400, "SKU already in use", 0, db)
    ELSE IF product_id \notin DOMAIN db.products
    THEN Result(404, "Product not found", 0, db)
    ELSE Result(200, "", 0,
            [db EXCEPT !.products[product_id] =
                [product EXCEPT !.stock_qty = db.products[product_id].stock_qty]])

\* (variant of update_product_run: the sku of other products not looked up)
update_product_run_unchecked(product_id, product, db) ==
    IF product_id \notin DOMAIN db.products
    THEN Result(404, "Product not found", 0, db)
    ELSE Result(200, "", 0, [db EXCEPT !.products[product_id] = product])

update_product_run(product_id, product, db) ==
    IF \E p \in DOMAIN db.products \ {product_id} : db.products[p].sku = product.sku
    THEN Result(400, "SKU already in use", 0, db)
    ELSE IF product_id \notin DOMAIN db.products
    THEN Result(404, "Product not found", 0, db)
    ELSE Result(200, "", 0, [db EXCEPT !.products[product_id] = product])

delete_product_run(product_id, db) ==
    IF product_id \notin DOMAIN db.products
    THEN Result(404, "Product not found", 0, db)
    ELSE Result(200, "", 0,
            [db EXCEPT !.products = [p \in DOMAIN db.products \ {product_id} |->
                                        db.products[p]]])

create_order_run(payload, db) ==
    IF payload.items = <<>>
    THEN Result(400, "No items in order", 0, db)
    ELSE LET acc == scan_items(payload.items, db.products, ScanStart) IN
         IF acc.status # 200
         THEN Result(acc.status, acc.detail, acc.at, db)
         ELSE Result(200, "", 0,
                 [db EXCEPT !.orders = Append(db.orders,
                                build_order(payload, acc,
                                            generate_order_number(Len(db.orders)))),
                            !.products = reduce_stock(payload.items, db.products)])

\* (variant of create_invoice_run: an order already invoiced is refused)
create_invoice_run_once(order_id, payload, now, db) ==
    IF order_id \notin DOMAIN db.orders
    THEN Result(404, "Order not found", 0, db)
    ELSE IF \E i \in DOMAIN db.invoices : db.invoices[i].order_id = order_id
    THEN Result(400, "Order already invoiced", 0, db)
    ELSE Result(200, "", 0,
            [db EXCEPT !.invoices = Append(db.invoices,
                           build_invoice(order_id, db.orders[order_id], payload,
                                         generate_invoice_number(Len(db.invoices)),
                                         now))])

create_invoice_run(order_id, payload, now, db) ==
    IF order_id \notin DOMAIN db.orders
    THEN Result(404, "Order not found", 0, db)
    ELSE Result(200, "", 0,
            [db EXCEPT !.invoices = Append(db.invoices,
                           build_invoice(order_id, db.orders[order_id], payload,
                                         generate_invoice_number(Len(db.invoices)),
                                         now))])

\* The list and fetch endpoints: find and find_one only
list_products_run(db) == Result(200, "", 0, db)

get_product_run(product_id, db) ==
    IF product_id \notin DOMAIN db.products
    THEN Result(404, "Product not found", 0, db)
    ELSE Result(200, "", 0, db)

list_orders_run(db) == Result(200, "", 0, db)

get_order_run(order_id, db) ==
    IF order_id \notin DOMAIN db.orders
    THEN Result(404, "Order not found", 0, db)
    ELSE Result(200, "", 0, db)

list_invoices_run(db) == Result(200, "", 0, db)

get_invoice_run(invoice_id, db) ==
    IF invoice_id \notin DOMAIN db.invoices
    THEN Result(404, "Invoice not found", 0, db)
    ELSE Result(200, "", 0, db)

\* The store after the handler returned r, within the bounds of the model
Apply(r) ==
    /\ r.status = 200 => steps < MaxSteps
    /\ r.db.nextPid <= Cardinality(ProductIds) + 1
    /\ steps' = IF r.status = 200 THEN steps + 1 ELSE steps
    /\ products' = r.db.products
    /\ nextPid' = r.db.nextPid
    /\ orders' = r.db.orders
    /\ invoices' = r.db.invoices
    /\ UNCHANGED <<procs, calc>>

\* Each action: the request body passes the request model, and the handler
\* runs on the store.
create_product(product) ==
    /\ product \in ProductSchema
    /\ Apply(create_product_run(product, Db))

update_product(product_id, product) ==
    /\ product \in ProductSchema
    /\ Apply(update_product_run(product_id, product, Db))

delete_product(product_id) ==
    /\ product_id \in ProductIds
    /\ Apply(delete_product_run(product_id, Db))

create_order(payload) ==
    /\ payload \in CreateOrderRequest
    /\ Apply(create_order_run(payload, Db))

create_invoice(order_id, payload, now) ==
    /\ payload \in InvoiceCreateRequest
    /\ Apply(create_invoice_run(order_id, payload, now, Db))

CreateProduct == \E product \in ProductSchema : create_product(product)

UpdateProduct ==
    \E product_id \in ProductIds, product \in ProductSchema :
        update_product(product_id, product)

DeleteProduct == \E product_id \in ProductIds : delete_product(product_id)

CreateOrder == \E payload \in CreateOrderRequest : create_order(payload)

CreateInvoice ==
    \E order_id \in OrderIds, payload \in InvoiceCreateRequest, now \in Times :
        create_invoice(order_id, payload, now)

----------------------------------------------------------------------------
(* The API served one request at a time, from the empty store *)

Idle == [w \in {1, 2} |-> [pc |-> "idle"]]

NoCalc == [pc |-> "none"]

EmptyDb == [products |-> <<>>, nextPid |-> 1, orders |-> <<>>, invoices |-> <<>>]

StoreIs(db) ==
    /\ products = db.products
    /\ nextPid = db.nextPid
    /\ orders = db.orders
    /\ invoices = db.invoices

Init ==
    /\ StoreIs(EmptyDb)
    /\ steps = 0
    /\ procs = Idle
    /\ calc = NoCalc

Next ==
    \/ CreateProduct
    \/ UpdateProduct
    \/ DeleteProduct
    \/ CreateOrder

Spec == Init /\ [][Next]_vars

----------------------------------------------------------------------------
(* The API with invoicing, followed from the stores that hold a first order: *)
(* the stores after one create_product and one create_order                  *)

InitInvoice ==
    /\ \E product \in ProductSchema, payload \in CreateOrderRequest :
          LET r == create_order_run(payload, create_product_run(product, EmptyDb).db)
          IN  r.status = 200 /\ StoreIs(r.db)
    /\ steps = 2
    /\ procs = Idle
    /\ calc = NoCalc

NextInvoice ==
    \/ CreateProduct
    \/ UpdateProduct
    \/ DeleteProduct
    \/ CreateOrder
    \/ CreateInvoice

SpecInvoice == InitInvoice /\ [][NextInvoice]_vars

----------------------------------------------------------------------------
(* The pricing calculator on its own *)

\* whole hundredths from 0.00 to 4.00, and three prices in eighths
CalcPrices == {10 * k : k \in 0 .. 40} \cup {125, 1875, 2875}
CalcMakings == {0, 1000}
CalcQtys == {1, 2}
CalcTaxRates == {0, 8}

InitCalc ==
    /\ StoreIs(EmptyDb)
    /\ steps = 0
    /\ procs = Idle
    /\ calc \in [pc : {"call"}, unit_price : CalcPrices, making_charges : CalcMakings,
                 qty : CalcQtys, tax_rate : CalcTaxRates, result : {<<>>}]

CalcItemTotals ==
    /\ calc.pc = "call"
    /\ calc' = [calc EXCEPT !.pc = "return",
                            !.result = calc_item_totals(calc.unit_price,
                                           calc.making_charges, calc.qty, calc.tax_rate)]
    /\ UNCHANGED <<products, nextPid, orders, invoices, steps, procs>>

NextCalc == CalcItemTotals

SpecCalc == InitCalc /\ [][NextCalc]_vars

----------------------------------------------------------------------------
(* The API served by two workers at once.  A request in flight advances by *)
(* one store operation per step (find_one, count_documents, insert_one,    *)
(* update_one); the code between two store operations runs with the step   *)
(* of the operation before it.  steps counts the requests taken up.        *)

Workers == {1, 2}

\* the requests the two workers take up: orders of at most one line, invoices
\* with the default dates, over a catalogue of one product
ConcOrderRequest == {r \in CreateOrderRequest : Len(r.items) <= 1}

ConcInvoiceRequest == [issue_date : {None}, due_in_days : {None}]

ConcProducts == {p \in ProductSchema : p.sku = "A" /\ p.unit_price = 1000}

\* lines 159-165: the empty-list check and the accumulators
OrderBegin(w, payload) ==
    /\ procs[w].pc = "idle"
    /\ steps < MaxSteps
    /\ steps' = steps + 1
    /\ procs' = [procs EXCEPT ![w] =
          IF payload.items = <<>>
          THEN [pc |-> "done", op |-> "create_order", payload |-> payload,
                status |-> 400, detail |-> "No items in order", read |-> <<>>,
                count |-> 0, ref |-> 0]
          ELSE [pc |-> "scan", op |-> "create_order", payload |-> payload,
                acc |-> ScanStart, read |-> <<>>]]
    /\ UNCHANGED <<products, nextPid, orders, invoices, calc>>

\* line 168, find_one of the next item's product, and lines 169-193 on it;
\* read keeps the stock_qty each find_one returned
OrderScan(w) ==
    /\ procs[w].pc = "scan"
    /\ LET me == procs[w]
           item == me.payload.items[me.acc.at + 1]
           acc == scan_step(me.acc, scan_item(item, products))
           read == Append(me.read,
                      IF item.product_id \in DOMAIN products
                      THEN <<products[item.product_id].stock_qty>> ELSE None)
       IN  procs' = [procs EXCEPT ![w] =
              IF acc.status # 200
              THEN [pc |-> "done", op |-> "create_order", payload |-> me.payload,
                    status |-> acc.status, detail |-> acc.detail, read |-> read,
                    count |-> 0, ref |-> 0]
              ELSE [me EXCEPT !.acc = acc, !.read = read,
                              !.pc = IF acc.at = Len(me.payload.items)
                                     THEN "count" ELSE "scan"]]
    /\ UNCHANGED <<products, nextPid, orders, invoices, steps, calc>>

\* line 153, count_documents, within generate_order_number
OrderCount(w) ==
    /\ procs[w].pc = "count"
    /\ procs' = [procs EXCEPT ![w] =
          [pc |-> "insert", op |-> "create_order", payload |-> procs[w].payload,
           acc |-> procs[w].acc, read |-> procs[w].read, count |-> Len(orders)]]
    /\ UNCHANGED <<products, nextPid, orders, invoices, steps, calc>>

\* insert_one numbering the order from the collection as it is at the insert
OrderInsertCounting(w) ==
    /\ procs[w].pc = "insert"
    /\ LET me == procs[w] IN
       /\ orders' = Append(orders,
             build_order(me.payload, me.acc, generate_order_number(Len(orders))))
       /\ procs' = [procs EXCEPT ![w] =
             [pc |-> "reduce", op |-> "create_order", payload |-> me.payload,
              read |-> me.read, count |-> me.count, ref |-> Len(orders) + 1,
              at |-> 0]]
    /\ UNCHANGED <<products, nextPid, invoices, steps, calc>>

\* lines 154 and 198-212: the number formatted from the count read, insert_one
OrderInsert(w) ==
    /\ procs[w].pc = "insert"
    /\ LET me == procs[w] IN
       /\ orders' = Append(orders,
             build_order(me.payload, me.acc, generate_order_number(me.count)))
       /\ procs' = [procs EXCEPT ![w] =
             [pc |-> "reduce", op |-> "create_order", payload |-> me.payload,
              read |-> me.read, count |-> me.count, ref |-> Len(orders) + 1,
              at |-> 0]]
    /\ UNCHANGED <<products, nextPid, invoices, steps, calc>>

\* update_one that decrements only a stock that covers the quantity
OrderReduceGuarded(w) ==
    /\ procs[w].pc = "reduce"
    /\ LET me == procs[w]
           item == me.payload.items[me.at + 1]
       IN
       /\ products' = IF products[item.product_id].stock_qty >= item.qty
                      THEN inc_stock(products, item) ELSE products
       /\ procs' = [procs EXCEPT ![w] =
             IF me.at + 1 = Len(me.payload.items)
             THEN [pc |-> "done", op |-> "create_order", payload |-> me.payload,
                   status |-> 200, detail |-> "", read |-> me.read,
                   count |-> me.count, ref |-> me.ref]
             ELSE [me EXCEPT !.at = me.at + 1]]
    /\ UNCHANGED <<nextPid, orders, invoices, steps, calc>>

\* line 216, update_one of the next item's product; after the last one,
\* line 218, the find_one of the order, folded into the step
OrderReduce(w) ==
    /\ procs[w].pc = "reduce"
    /\ LET me == procs[w] IN
       /\ products' = inc_stock(products, me.payload.items[me.at + 1])
       /\ procs' = [procs EXCEPT ![w] =
             IF me.at + 1 = Len(me.payload.items)
             THEN [pc |-> "done", op |-> "create_order", payload |-> me.payload,
                   status |-> 200, detail |-> "", read |-> me.read,
                   count |-> me.count, ref |-> me.ref]
             ELSE [me EXCEPT !.at = me.at + 1]]
    /\ UNCHANGED <<nextPid, orders, invoices, steps, calc>>

\* line 297, find_one of the order, and lines 298-299
InvoiceBegin(w, order_id, payload, now) ==
    /\ procs[w].pc = "idle"
    /\ steps < MaxSteps
    /\ steps' = steps + 1
    /\ procs' = [procs EXCEPT ![w] =
          IF order_id \notin DOMAIN orders
          THEN [pc |-> "done", op |-> "create_invoice", payload |-> payload,
                status |-> 404, detail |-> "Order not found", read |-> <<>>,
                count |-> 0, ref |-> 0]
          ELSE [pc |-> "inv_count", op |-> "create_invoice", payload |-> payload,
                order_id |-> order_id, order |-> orders[order_id], now |-> now]]
    /\ UNCHANGED <<products, nextPid, orders, invoices, calc>>

\* line 244, count_documents, within generate_invoice_number
InvoiceCount(w) ==
    /\ procs[w].pc = "inv_count"
    /\ procs' = [procs EXCEPT ![w] =
          [pc |-> "inv_insert", op |-> "create_invoice", payload |-> procs[w].payload,
           order_id |-> procs[w].order_id, order |-> procs[w].order,
           now |-> procs[w].now, count |-> Len(invoices)]]
    /\ UNCHANGED <<products, nextPid, orders, invoices, steps, calc>>

\* lines 302-321: the document built from the order read, insert_one; and
\* line 322, the find_one of the invoice, folded into the step
InvoiceInsert(w) ==
    /\ procs[w].pc = "inv_insert"
    /\ LET me == procs[w] IN
       /\ invoices' = Append(invoices,
             build_invoice(me.order_id, me.order, me.payload,
                           generate_invoice_number(me.count), me.now))
       /\ procs' = [procs EXCEPT ![w] =
             [pc |-> "done", op |-> "create_invoice", payload |-> me.payload,
              status |-> 200, detail |-> "", read |-> <<>>,
              count |-> me.count, ref |-> Len(invoices) + 1]]
    /\ UNCHANGED <<products, nextPid, orders, steps, calc>>

\* the response is sent; the worker is free for the next request
Respond(w) ==
    /\ procs[w].pc = "done"
    /\ procs' = [procs EXCEPT ![w] = [pc |-> "idle"]]
    /\ UNCHANGED <<products, nextPid, orders, invoices, steps, calc>>

InitConc ==
    /\ \E product \in ConcProducts, payload \in ConcOrderRequest :
          LET r == create_order_run(payload, create_product_run(product, EmptyDb).db)
          IN  r.status = 200 /\ StoreIs(r.db)
    /\ steps = 0
    /\ procs = Idle
    /\ calc = NoCalc

NextConc ==
    \/ \E w \in Workers, payload \in ConcOrderRequest : OrderBegin(w, payload)
    \/ \E w \in Workers : OrderScan(w)
    \/ \E w \in Workers : OrderCount(w)
    \/ \E w \in Workers : OrderInsert(w)
    \/ \E w \in Workers : OrderReduce(w)
    \/ \E w \in Workers, order_id \in OrderIds, payload \in ConcInvoiceRequest,
          now \in Times : InvoiceBegin(w, order_id, payload, now)
    \/ \E w \in Workers : InvoiceCount(w)
    \/ \E w \in Workers : InvoiceInsert(w)
    \/ \E w \in Workers : Respond(w)

SpecConc == InitConc /\ [][NextConc]_vars

----------------------------------------------------------------------------
(* create_order with a store whose update_one may raise.  The handler has  *)
(* no try/except and no transaction: the exception leaves the handler at   *)
(* line 216 and the framework answers 500.  One worker, orders of up to    *)
(* two lines.                                                              *)

FaultWorkers == {1}

RECURSIVE restore_stock(_, _)
\* the decrements of items taken back
restore_stock(items, prods) ==
    IF items = <<>> THEN prods
    ELSE restore_stock(Tail(items),
            [prods EXCEPT ![Head(items).product_id].stock_qty = @ + Head(items).qty])

\* (variant of OrderReduceFails: the order deleted and the decrements
\* applied so far taken back before the error is answered)
OrderReduceFailsUndone(w) ==
    /\ procs[w].pc = "reduce"
    /\ LET me == procs[w] IN
       /\ orders' = SubSeq(orders, 1, me.ref - 1)
                       \o SubSeq(orders, me.ref + 1, Len(orders))
       /\ products' = restore_stock(SubSeq(me.payload.items, 1, me.at), products)
       /\ procs' = [procs EXCEPT ![w] =
             [pc |-> "done", op |-> "create_order", payload |-> me.payload,
              status |-> 500, detail |-> "update_one raised", read |-> me.read,
              count |-> me.count, ref |-> me.ref, applied |-> me.at]]
    /\ UNCHANGED <<nextPid, invoices, steps, calc>>

\* line 216, update_one raising on the next item: nothing is written, the
\* loop is left, lines 218-219 do not run
OrderReduceFails(w) ==
    /\ procs[w].pc = "reduce"
    /\ LET me == procs[w] IN
       procs' = [procs EXCEPT ![w] =
          [pc |-> "done", op |-> "create_order", payload |-> me.payload,
           status |-> 500, detail |-> "update_one raised", read |-> me.read,
           count |-> me.count, ref |-> me.ref, applied |-> me.at]]
    /\ UNCHANGED <<products, nextPid, orders, invoices, steps, calc>>

InitFault ==
    /\ \E product \in ProductSchema, payload \in CreateOrderRequest :
          LET r == create_order_run(payload, create_product_run(product, EmptyDb).db)
          IN  r.status = 200 /\ StoreIs(r.db)
    /\ steps = 2
    /\ procs = Idle
    /\ calc = NoCalc

NextFault ==
    \/ \E w \in FaultWorkers, payload \in CreateOrderRequest : OrderBegin(w, payload)
    \/ \E w \in FaultWorkers : OrderScan(w)
    \/ \E w \in FaultWorkers : OrderCount(w)
    \/ \E w \in FaultWorkers : OrderInsert(w)
    \/ \E w \in FaultWorkers : OrderReduce(w)
    \/ \E w \in FaultWorkers : OrderReduceFails(w)
    \/ \E w \in FaultWorkers : Respond(w)

SpecFault == InitFault /\ [][NextFault]_vars

----------------------------------------------------------------------------
(* create_product and update_product served by two workers at once, one    *)
(* store operation per step, from the empty store                          *)

\* the product bodies the two workers send: one per sku
SkuProducts == {p \in ProductSchema : p.unit_price = 1000 /\ p.stock_qty = 1}

\* line 98, find_one by sku, and lines 99-103
ProductBegin(w, product) ==
    /\ procs[w].pc = "idle"
    /\ steps < MaxSteps
    /\ steps' = steps + 1
    /\ procs' = [procs EXCEPT ![w] =
          IF \E p \in DOMAIN products : products[p].sku = product.sku
          THEN [pc |-> "done", op |-> "create_product", payload |-> product,
                status |-> 400, detail |-> "SKU already exists", read |-> <<>>,
                count |-> 0, ref |-> 0]
          ELSE [pc |-> "prod_insert", op |-> "create_product", payload |-> product]]
    /\ UNCHANGED <<products, nextPid, orders, invoices, calc>>

\* line 104, insert_one; and line 105, the find_one of the product, folded
\* into the step
ProductInsert(w) ==
    /\ procs[w].pc = "prod_insert"
    /\ nextPid <= Cardinality(ProductIds)
    /\ products' = [p \in DOMAIN products \cup {nextPid} |->
                       IF p = nextPid THEN procs[w].payload ELSE products[p]]
    /\ nextPid' = nextPid + 1
    /\ procs' = [procs EXCEPT ![w] =
          [pc |-> "done", op |-> "create_product", payload |-> procs[w].payload,
           status |-> 200, detail |-> "", read |-> <<>>, count |-> 0,
           ref |-> nextPid]]
    /\ UNCHANGED <<orders, invoices, steps, calc>>

\* line 121, find_one by sku among the other products, and lines 122-125
UpdateBegin(w, product_id, product) ==
    /\ procs[w].pc = "idle"
    /\ steps < MaxSteps
    /\ steps' = steps + 1
    /\ procs' = [procs EXCEPT ![w] =
          IF \E p \in DOMAIN products \ {product_id} : products[p].sku = product.sku
          THEN [pc |-> "done", op |-> "update_product", payload |-> product,
                status |-> 400, detail |-> "SKU already in use", read |-> <<>>,
                count |-> 0, ref |-> 0]
          ELSE [pc |-> "prod_update", op |-> "update_product", payload |-> product,
                product_id |-> product_id]]
    /\ UNCHANGED <<products, nextPid, orders, invoices, calc>>

\* line 126, update_one, and lines 127-128; line 129, the find_one of the
\* product, folded into the step
UpdateWrite(w) ==
    /\ procs[w].pc = "prod_update"
    /\ LET me == procs[w]
           found == me.product_id \in DOMAIN products
       IN
       /\ products' = IF found
                      THEN [products EXCEPT ![me.product_id] = me.payload]
                      ELSE products
       /\ procs' = [procs EXCEPT ![w] =
             [pc |-> "done", op |-> "update_product", payload |-> me.payload,
              status |-> IF found THEN 200 ELSE 404,
              detail |-> IF found THEN "" ELSE "Product not found",
              read |-> <<>>, count |-> 0, ref |-> me.product_id]]
    /\ UNCHANGED <<nextPid, orders, invoices, steps, calc>>

InitSku ==
    /\ StoreIs(EmptyDb)
    /\ steps = 0
    /\ procs = Idle
    /\ calc = NoCalc

NextSku ==
    \/ \E w \in Workers, product \in SkuProducts : ProductBegin(w, product)
    \/ \E w \in Workers : ProductInsert(w)
    \/ \E w \in Workers, product_id \in ProductIds, product \in SkuProducts :
          UpdateBegin(w, product_id, product)
    \/ \E w \in Workers : UpdateWrite(w)
    \/ \E w \in Workers : Respond(w)

SpecSku == InitSku /\ [][NextSku]_vars

----------------------------------------------------------------------------
(* Orders and invoices only, one request at a time, on a catalogue of two  *)
(* products that is never updated                                          *)

\* the stock_qty each product is created with
InitialStock == [p \in ProductIds |-> p]

InitStock ==
    /\ \E p1, p2 \in ProductSchema :
          LET r == create_product_run(p2, create_product_run(p1, EmptyDb).db)
          IN  /\ p1.stock_qty = InitialStock[1]
              /\ p2.stock_qty = InitialStock[2]
              /\ r.status = 200
              /\ StoreIs(r.db)
    /\ steps = 2
    /\ procs = Idle
    /\ calc = NoCalc

NextStock ==
    \/ CreateOrder
    \/ CreateInvoice

SpecStock == InitStock /\ [][NextStock]_vars

----------------------------------------------------------------------------
(* Properties *)

\* Item i of the list is read by the validation loop (every item before it
\* passed its checks) and asks for more than the stock its product has
ReadShort(items, i, prods) ==
    /\ \A j \in 1 .. i - 1 :
          /\ items[j].product_id \in DOMAIN prods
          /\ items[j].qty <= prods[items[j].product_id].stock_qty
          /\ items[j].qty >= 1
    /\ items[i].product_id \in DOMAIN prods
    /\ items[i].qty > prods[items[i].product_id].stock_qty

\* C1: in every store the API reaches, a create_order request whose
\* validation loop reads a product with stock_qty below the item's qty is
\* answered 400 "Insufficient stock" for that item, inserts no Order and
\* leaves every product as it was, the products of the items before it too.
C1_InsufficientStockRejected ==
    \A payload \in CreateOrderRequest : \A i \in DOMAIN payload.items :
        ReadShort(payload.items, i, products) =>
            LET r == create_order_run(payload, Db)
            IN  /\ r.status = 400
                /\ r.detail = "Insufficient stock"
                /\ r.at = i
                /\ r.db.orders = orders
                /\ r.db.products = products

\* C1 witness: a store with an order already taken in which a two-line
\* request passes its first line and is short on the second, on either the
\* same or another product.
C1_Witness ==
    /\ orders # <<>>
    /\ \E payload \in CreateOrderRequest :
          /\ Len(payload.items) = 2
          /\ payload.items[1].qty >= 1
          /\ ReadShort(payload.items, 2, products)
          /\ create_order_run(payload, Db).status = 400

\* the quantity the items ask of product p
QtyOf(items, p) ==
    Sum([i \in DOMAIN items |-> IF items[i].product_id = p THEN items[i].qty ELSE 0])

\* C2: a step that persists an Order leaves the set of products as it was,
\* takes from every product the sum of the qty of the order's items that
\* name it, and changes no other field; a product no item names keeps its
\* stock_qty.
C2_StockDecrementedOnce ==
    [][Len(orders') = Len(orders) + 1 =>
        LET items == orders'[Len(orders')].items IN
        /\ DOMAIN products' = DOMAIN products
        /\ \A p \in DOMAIN products :
              products'[p] = [products[p] EXCEPT
                                 !.stock_qty = @ - QtyOf(items, p)]]_vars

\* C2 witness: an order with two lines on one product, taken while a second
\* product exists.
C2_Witness ==
    /\ Cardinality(DOMAIN products) = 2
    /\ \E k \in DOMAIN orders :
          /\ Len(orders[k].items) = 2
          /\ orders[k].items[1].product_id = orders[k].items[2].product_id
          /\ orders[k].items[1].qty = 2

\* C3 (as claimed): every product's stock_qty is >= 0 in every store the
\* API reaches one request at a time.
C3_StockNeverNegative ==
    \A p \in DOMAIN products : products[p].stock_qty >= 0

OrderNumbers ==
    <<"ORD-00001", "ORD-00002", "ORD-00003", "ORD-00004", "ORD-00005",
      "ORD-00006", "ORD-00007", "ORD-00008">>

\* C5: the k-th persisted Order carries "ORD-" and k on five digits, so no
\* two persisted Orders share an order_number, whatever requests were
\* rejected in between.
C5_OrderNumbersSequential ==
    /\ \A k \in DOMAIN orders : orders[k].order_number = OrderNumbers[k]
    /\ \A k, l \in DOMAIN orders :
          k # l => orders[k].order_number # orders[l].order_number

\* C5 witness: two orders persisted.
C5_Witness == Len(orders) >= 2

\* C7 (as claimed): every persisted Order has grand_total = subtotal +
\* tax_total = the sum of its items' total, subtotal = the sum of its items'
\* subtotal and tax_total = the sum of its items' tax_amount.
C7_OrderTotalsAgree ==
    \A k \in DOMAIN orders :
        LET o == orders[k] IN
        /\ o.subtotal = Sum([i \in DOMAIN o.items |-> o.items[i].subtotal])
        /\ o.tax_total = Sum([i \in DOMAIN o.items |-> o.items[i].tax_amount])
        /\ o.grand_total = o.subtotal + o.tax_total
        /\ o.grand_total = Sum([i \in DOMAIN o.items |-> o.items[i].total])

\* C8 (as claimed): calc_item_totals returns subtotal = round2((unit_price +
\* making_charges) * qty), tax_amount = round2(unrounded subtotal * tax_rate
\* / 100) and total = the returned subtotal + the returned tax_amount.
C8_ItemTotals ==
    calc.pc = "return" =>
        LET unrounded == (calc.unit_price + calc.making_charges) * calc.qty IN
        /\ calc.result[1] = RoundHalfEven(unrounded, 10)
        /\ calc.result[2] = RoundHalfEven(unrounded * calc.tax_rate, 1000)
        /\ calc.result[3] = calc.result[1] + calc.result[2]

\* the invoice holds the order's items, customer, totals and number
SnapshotOf(inv, order_id, order) ==
    /\ inv.order_id = order_id
    /\ inv.order_number = order.order_number
    /\ inv.items = order.items
    /\ inv.billed_to = order.customer
    /\ inv.subtotal = order.subtotal
    /\ inv.tax_total = order.tax_total
    /\ inv.grand_total = order.grand_total

\* C9: a step that persists an Invoice gives it the items, billed_to,
\* subtotal, tax_total, grand_total, id and number of its source Order as
\* the order stands before the step; and no step of the API changes or
\* removes an Invoice that is already persisted.
C9_InvoiceSnapshot ==
    [][/\ \A i \in DOMAIN invoices :
             i \in DOMAIN invoices' /\ invoices'[i] = invoices[i]
       /\ \A i \in DOMAIN invoices' \ DOMAIN invoices :
             /\ invoices'[i].order_id \in DOMAIN orders
             /\ SnapshotOf(invoices'[i], invoices'[i].order_id,
                           orders[invoices'[i].order_id])]_vars

\* C9 witness: an invoice one of whose items names a product that has since
\* been deleted, or re-priced or re-labelled by update_product.
C9_Witness ==
    \E i \in DOMAIN invoices : \E k \in DOMAIN invoices[i].items :
        LET d == invoices[i].items[k] IN
        \/ d.product_id \notin DOMAIN products
        \/ products[d.product_id].unit_price # d.unit_price
        \/ products[d.product_id].sku # d.sku

\* C10: in every store the API reaches, create_invoice for an existing order
\* persists an Invoice whose issue_date is the supplied one, or the current
\* time when none is supplied, and whose due_date is the issue_date when
\* due_in_days is 0 or null and the issue_date plus due_in_days days for
\* every other value.
C10_DueDate ==
    \A order_id \in DOMAIN orders, payload \in InvoiceCreateRequest, now \in Times :
        LET r == create_invoice_run(order_id, payload, now, Db)
            inv == r.db.invoices[Len(r.db.invoices)]
            issued == IF payload.issue_date = <<>> THEN now ELSE payload.issue_date[1]
        IN  /\ r.status = 200
            /\ Len(r.db.invoices) = Len(invoices) + 1
            /\ inv.issue_date = issued
            /\ payload.due_in_days \in {<<>>, <<0>>} => inv.due_date = <<issued>>
            /\ payload.due_in_days \notin {<<>>, <<0>>} =>
                  inv.due_date = <<issued + payload.due_in_days[1]>>

\* C10 witness: an invoice issued at the current time and due two days
\* later, and one due on its supplied issue date.
C10_Witness ==
    /\ \E i \in DOMAIN invoices :
          invoices[i].issue_date \in Times
          /\ invoices[i].due_date = <<invoices[i].issue_date + 2>>
    /\ \E i \in DOMAIN invoices :
          invoices[i].issue_date \notin Times
          /\ invoices[i].due_date = <<invoices[i].issue_date>>

\* two workers, each holding a finished, successful request of one kind
BothDone(w1, w2, op) ==
    /\ w1 # w2
    /\ procs[w1].pc = "done" /\ procs[w2].pc = "done"
    /\ procs[w1].op = op /\ procs[w2].op = op
    /\ procs[w1].status = 200 /\ procs[w2].status = 200

\* two finished one-line orders for one product whose stock checks read the
\* same stock_qty
SameStockRead(w1, w2) ==
    /\ BothDone(w1, w2, "create_order")
    /\ Len(procs[w1].payload.items) = 1 /\ Len(procs[w2].payload.items) = 1
    /\ procs[w1].payload.items[1].product_id = procs[w2].payload.items[1].product_id
    /\ procs[w1].read = procs[w2].read

\* C4: when two concurrent orders for one product both pass the stock check
\* on the same stock value, both orders are persisted and both decrements are
\* applied to that value, whatever it covers.
C4_ConcurrentOversell ==
    \A w1, w2 \in Workers :
        SameStockRead(w1, w2) =>
            LET i1 == procs[w1].payload.items[1]
                i2 == procs[w2].payload.items[1]
                s == procs[w1].read[1][1]
            IN  /\ procs[w1].ref # procs[w2].ref
                /\ procs[w1].ref \in DOMAIN orders
                /\ procs[w2].ref \in DOMAIN orders
                /\ orders[procs[w1].ref].items[1].qty = i1.qty
                /\ orders[procs[w2].ref].items[1].qty = i2.qty
                /\ products[i1.product_id].stock_qty = s - i1.qty - i2.qty

C4_Witness ==
    \E w1, w2 \in Workers :
        /\ SameStockRead(w1, w2)
        /\ procs[w1].read[1][1] >= 0
        /\ procs[w1].ref # procs[w2].ref
        /\ {procs[w1].ref, procs[w2].ref} \subseteq DOMAIN orders
        /\ products[procs[w1].payload.items[1].product_id].stock_qty < 0

\* C6: two concurrent requests of one kind that read the same document count
\* both persist a record, and the two records carry the same order_number
\* (respectively invoice_number).
C6_DuplicateNumbers ==
    \A w1, w2 \in Workers :
        /\ BothDone(w1, w2, "create_order") /\ procs[w1].count = procs[w2].count
              => /\ procs[w1].ref # procs[w2].ref
                 /\ {procs[w1].ref, procs[w2].ref} \subseteq DOMAIN orders
                 /\ orders[procs[w1].ref].order_number
                       = orders[procs[w2].ref].order_number
        /\ BothDone(w1, w2, "create_invoice") /\ procs[w1].count = procs[w2].count
              => /\ procs[w1].ref # procs[w2].ref
                 /\ {procs[w1].ref, procs[w2].ref} \subseteq DOMAIN invoices
                 /\ invoices[procs[w1].ref].invoice_number
                       = invoices[procs[w2].ref].invoice_number

C6_Witness ==
    /\ \E i, j \in DOMAIN orders :
          i # j /\ orders[i].order_number = orders[j].order_number
    /\ \E i, j \in DOMAIN invoices :
          i # j /\ invoices[i].invoice_number = invoices[j].invoice_number

\* C11 (as claimed): every persisted Invoice has due_date >= issue_date.
C11_DueNotBeforeIssue ==
    \A i \in DOMAIN invoices : invoices[i].due_date[1] >= invoices[i].issue_date

\* no two products of the collection share a sku
SkuUnique(prods) ==
    \A p, q \in DOMAIN prods : p # q => prods[p].sku # prods[q].sku

\* C12: served one request at a time, no two products share a sku;
\* create_product with a sku some product has answers 400 and inserts
\* nothing; update_product to a sku another product has answers 400 and
\* changes nothing; update_product of a product with its own sku succeeds
\* and stores the new fields.
C12_SkuUniqueSequential ==
    /\ SkuUnique(products)
    /\ \A product \in ProductSchema :
          (\E p \in DOMAIN products : products[p].sku = product.sku) =>
              LET r == create_product_run(product, Db)
              IN  r.status = 400 /\ r.db = Db
    /\ \A product_id \in ProductIds, product \in ProductSchema :
          LET r == update_product_run(product_id, product, Db) IN
          /\ (\E p \in DOMAIN products \ {product_id} :
                 products[p].sku = product.sku) => r.status = 400 /\ r.db = Db
          /\ (product_id \in DOMAIN products
                 /\ products[product_id].sku = product.sku) =>
                    /\ r.status = 200
                    /\ r.db.products[product_id] = product
                    /\ SkuUnique(r.db.products)

\* C12 witness: two products with different skus and no order, after two
\* creations and a successful update.
C12_Witness ==
    /\ Cardinality(DOMAIN products) = 2
    /\ nextPid = 3
    /\ orders = <<>>
    /\ steps >= 3
    /\ products[1].sku # products[2].sku

\* C13: in every store the API reaches, create_invoice leaves the products,
\* the orders and the invoices already persisted as they are; for an order
\* that does not exist it persists nothing, and for an order that exists it
\* succeeds and persists exactly one more Invoice, however many invoices
\* the order already has.
C13_InvoiceFrame ==
    \A order_id \in OrderIds, payload \in InvoiceCreateRequest, now \in Times :
        LET r == create_invoice_run(order_id, payload, now, Db) IN
        /\ r.db.products = products
        /\ r.db.nextPid = nextPid
        /\ r.db.orders = orders
        /\ order_id \notin DOMAIN orders => r.status = 404 /\ r.db.invoices = invoices
        /\ order_id \in DOMAIN orders =>
              /\ r.status = 200
              /\ Len(r.db.invoices) = Len(invoices) + 1
              /\ SubSeq(r.db.invoices, 1, Len(invoices)) = invoices
              /\ r.db.invoices[Len(r.db.invoices)].order_id = order_id

\* C13 witness: two invoices persisted for one order.
C13_Witness ==
    \E i, j \in DOMAIN invoices :
        i # j /\ invoices[i].order_id = invoices[j].order_id

\* every item before item i passes the checks of the validation loop
PassBefore(items, i, prods) ==
    \A j \in 1 .. i - 1 :
        /\ items[j].product_id \in DOMAIN prods
        /\ items[j].qty <= prods[items[j].product_id].stock_qty
        /\ items[j].qty >= 1

C15_PartialFailureStays ==
    \A w \in FaultWorkers :
        (procs[w].pc = "done" /\ procs[w].status # 200 /\ procs[w].ref # 0) =>
            LET me == procs[w]
                items == me.payload.items
            IN  /\ me.status = 500
                /\ me.ref \in DOMAIN orders
                /\ Len(orders[me.ref].items) = Len(items)
                /\ me.applied < Len(items)
                /\ \A i \in DOMAIN items :
                      products[items[i].product_id].stock_qty
                         = me.read[i][1]
                              - QtyOf(SubSeq(items, 1, me.applied),
                                      items[i].product_id)

\* C15 witness: a two-line order on one product persisted, its first
\* decrement applied, its second failed.
C15_Witness ==
    \E w \in FaultWorkers :
        /\ procs[w].pc = "done" /\ procs[w].status = 500 /\ procs[w].ref # 0
        /\ Len(procs[w].payload.items) = 2
        /\ procs[w].applied = 1
        /\ procs[w].ref \in DOMAIN orders
        /\ products[procs[w].payload.items[1].product_id].stock_qty
              = procs[w].read[1][1] - procs[w].payload.items[1].qty

\* C16 (as claimed): a step that changes the stock_qty of a product that
\* exists before and after it is a step that persists an Order.
C16_OnlyOrdersWriteStock ==
    [][\A p \in DOMAIN products \cap DOMAIN products' :
          products'[p].stock_qty # products[p].stock_qty =>
              Len(orders') = Len(orders) + 1]_vars

\* C16 (amended): in every store the API reaches, create_invoice and the
\* list and fetch endpoints leave every product as it is, and update_product
\* leaves the stock_qty of every other product as it is and, when it
\* succeeds, sets the stock_qty of its product to the one in the request
\* body.
C16_StockWriters ==
    /\ \A order_id \in OrderIds, payload \in InvoiceCreateRequest, now \in Times :
          create_invoice_run(order_id, payload, now, Db).db.products = products
    /\ list_products_run(Db).db = Db
    /\ list_orders_run(Db).db = Db
    /\ list_invoices_run(Db).db = Db
    /\ \A id \in ProductIds \cup OrderIds :
          /\ get_product_run(id, Db).db = Db
          /\ get_order_run(id, Db).db = Db
          /\ get_invoice_run(id, Db).db = Db
    /\ \A product_id \in ProductIds, product \in ProductSchema :
          LET r == update_product_run(product_id, product, Db) IN
          /\ DOMAIN r.db.products = DOMAIN products
          /\ \A p \in DOMAIN products :
                r.db.products[p].stock_qty =
                    IF r.status = 200 /\ p = product_id
                    THEN product.stock_qty
                    ELSE products[p].stock_qty

\* C16 witness: the first product holds more stock than any store holds
\* after the first order, with no later order and no product created: its
\* stock_qty was set by update_product; an invoice has been generated.
C16_Witness ==
    /\ nextPid = 2
    /\ 1 \in DOMAIN products
    /\ products[1].stock_qty = 2
    /\ Len(orders) = 1
    /\ invoices # <<>>

\* C17 (as claimed): with create_product and update_product interleaved one
\* store operation at a time, no two products share a sku.
C17_SkuUniqueConcurrent == SkuUnique(products)

\* C18: with orders and invoices only, one request at a time, for every
\* product the stock_qty it was created with minus its current stock_qty is
\* the sum of qty over all items of all persisted Orders that name it.
C18_StockConservation ==
    \A p \in DOMAIN products :
        InitialStock[p] - products[p].stock_qty
           = Sum([k \in DOMAIN orders |-> QtyOf(orders[k].items, p)])

\* C18 witness: the stock of the second product taken in full by the
\* persisted orders, and an invoice generated.
C18_Witness ==
    /\ orders # <<>>
    /\ invoices # <<>>
    /\ products[2].stock_qty = 0

\* the request bodies of CreateOrderRequest with negative quantities too
SignedQtys == -1 .. 2

SignedOrderRequest ==
    [customer : Customers,
     items : UNION {[1 .. n -> [product_id : ProductIds, qty : SignedQtys]] :
                        n \in 1 .. 2}]

\* C19: every item of every persisted Order has qty >= 1; no create_order
\* call raises the stock_qty of a product; a request with an item of
\* qty <= 0 is rejected with the store unchanged, and when the validation
\* loop reaches that item and its stock check passes it is rejected by the
\* construction of the OrderItem.
C19_PositiveQty ==
    /\ \A k \in DOMAIN orders : \A i \in DOMAIN orders[k].items :
          orders[k].items[i].qty >= 1
    /\ \A payload \in SignedOrderRequest :
          LET r == create_order_run(payload, Db)
              items == payload.items
          IN  /\ \A p \in DOMAIN products :
                    /\ p \in DOMAIN r.db.products
                    /\ r.db.products[p].stock_qty <= products[p].stock_qty
              /\ \A i \in DOMAIN items :
                    items[i].qty <= 0 =>
                        /\ r.status # 200
                        /\ r.db = Db
                        /\ (/\ PassBefore(items, i, products)
                            /\ items[i].product_id \in DOMAIN products
                            /\ products[items[i].product_id].stock_qty >= items[i].qty)
                           => /\ r.status = 500
                              /\ r.detail = "ValidationError"
                              /\ r.at = i

\* C19 witness: a store with an order taken in which a request whose first
\* line is in stock and whose second line asks for a negative quantity of an
\* existing product is rejected by the OrderItem construction.
C19_Witness ==
    /\ orders # <<>>
    /\ \E payload \in SignedOrderRequest :
          /\ Len(payload.items) = 2
          /\ PassBefore(payload.items, 2, products)
          /\ payload.items[2].product_id \in DOMAIN products
          /\ payload.items[2].qty < 0
          /\ create_order_run(payload, Db).status = 500

====
